---- MODULE Spec2Model ----
(***************************************************************************)
(* Verification model of the sniper pipeline (bot.py, blockchain.py,       *)
(* flow_filters.py).                                                       *)
(*                                                                         *)
(* Four specifications share this module:                                  *)
(*   Spec        the entry pipeline: listener, consumer loop of            *)
(*               sniper_main, the filter stages, TradingStats and the      *)
(*               manage_position tasks.  One action per await-delimited    *)
(*               step of the asyncio tasks.                                *)
(*   SpecSubmit  one call of buy_token / sell_token down to                *)
(*               simulate_and_send and send_jito_bundle.                   *)
(*   SpecPosition  one manage_position task with its prices, triggers,     *)
(*               ladder, sell and fee capture.                             *)
(*   SpecBuy     the buy of one approved candidate in sniper_main: curve   *)
(*               state, dynamic tip, the three buy paths, the Position.    *)
(* Fields of cand named in the comments as "observation" record what the   *)
(* code did for the candidate; the code itself has no such fields.         *)
(***************************************************************************)
EXTENDS Integers, Sequences, FiniteSets, TLC

\* ---------------------------------------------------------------- bounds
MaxEvents == 2          \* events the stream delivers in one run
MaxFee == 2             \* largest fee of one sell transaction (fee units)
InitialCapital == 100   \* wallet balance at start-up (fee units)

\* ------------------------------------------------------ program constants
FeeLimitPercent == 2    \* CONFIG["fee_limit_percent"] = 0.02, in per cent
ApiRiskThreshold == 65  \* should_snipe: risk > 65
DbScoreMin == 30        \* should_snipe: score < 30
DbRiskThreshold == 70   \* should_snipe: risk > 70
CurveProgressMin == 10  \* CONFIG["curve_progress_min"]
CurveProgressMax == 60  \* CONFIG["curve_progress_max"]
MinActivityDensity == 2 \* CONFIG["min_activity_density"]
MaxConcentrationPct == 25 \* CONFIG.get("max_concentration_pct", 25.0)
MinAiScore == 40        \* CONFIG.get("min_ai_score", 40.0)
MinMarketCapUsd == 5000 \* CONFIG.get("min_market_cap_usd", 5000.0)
BitqueryMinBuyers == 8  \* should_snipe_bitquery: buys < 8
BitqueryMinVolume == 1500 \* should_snipe_bitquery: volume < 1500

None == "None"
Mints == {"m1", "m2"}

\* a mint string that Pubkey.from_string does not accept
MalformedMint == "bad"

\* Pubkey.from_string(mint) returns (TRUE) or raises ValueError (FALSE)
valid_pubkey(mint) == mint \in Mints
Fees == 1..MaxFee

\* creator that launched a mint (the stream reports it with the mint)
CreatorOf(m) == IF m = "m1" THEN "c1" ELSE "c2"

\* events the SDK listener hands to pusher: with mint and creator, or with
\* only a signature (mint/creator missing)
Events ==
    {[mint |-> m, creator |-> CreatorOf(m)] : m \in Mints}
        \cup {[mint |-> None, creator |-> None]}
        \cup {[mint |-> MalformedMint, creator |-> CreatorOf(MalformedMint)]}

VARIABLES
    token_queue,    \* asyncio.Queue of sniper_main
    delivered,      \* number of events the stream has delivered so far
    config_json,    \* the file config.json as the dashboard leaves it
    CONFIG,         \* the global CONFIG dict
    stats_tracker,  \* the TradingStats instance
    cpc,            \* position of the consumer loop of sniper_main
    cand,           \* the candidate the consumer works on (or worked on last)
    positions,      \* the manage_position tasks created so far
    sub,            \* one submission (SpecSubmit)
    pos,            \* one manage_position task in detail (SpecPosition)
    buy             \* one buy of sniper_main in detail (SpecBuy)

vars == <<token_queue, delivered, config_json, CONFIG, stats_tracker,
          cpc, cand, positions, sub, pos, buy>>

pipeVars == <<token_queue, delivered, config_json, CONFIG, stats_tracker,
              cpc, cand, positions, pos, buy>>

\* ------------------------------------------------------------ TradingStats
TradingStats(initial_capital, limit_pct) ==
    [initial_capital |-> initial_capital,
     total_fees_lamports |-> 0,
     limit_pct |-> limit_pct]

\* the fee is dropped instead of added
add_fee_dropped(st, fee_lamports) == st

\* the fee overwrites the total instead of adding to it
add_fee_overwrite(st, fee_lamports) ==
    [st EXCEPT !.total_fees_lamports = fee_lamports]

\* the fee is subtracted
add_fee_negated(st, fee_lamports) ==
    [st EXCEPT !.total_fees_lamports = @ - fee_lamports]

add_fee(st, fee_lamports) ==
    [st EXCEPT !.total_fees_lamports = @ + fee_lamports]

\* > in place of >=
is_budget_exceeded_strict(st) ==
    st.total_fees_lamports * 100 > st.initial_capital * st.limit_pct

\* fee_sol >= initial_capital * limit_pct, limit_pct kept in per cent
is_budget_exceeded(st) ==
    st.total_fees_lamports * 100 >= st.initial_capital * st.limit_pct

\* ------------------------------------------------------------------ CONFIG
\* with open("config.json") ... CONFIG.update(new_cfg); a failed read keeps
\* CONFIG as it is
\* only the blacklist is taken from the file
reload_config_blacklist_only(cfg, file) ==
    IF file.valid
    THEN [cfg EXCEPT !.creator_blacklist = file.creator_blacklist]
    ELSE cfg

reload_config(cfg, file) ==
    IF file.valid
    THEN [cfg EXCEPT !.creator_blacklist = file.creator_blacklist,
                     !.min_activity_density = file.min_activity_density,
                     !.fee_limit_percent = file.fee_limit_percent]
    ELSE cfg

Blacklists == {{}, {"c2"}}

\* config.json and CONFIG as the defaults of bot.py lines 28-38 give them
DefaultFile ==
    [valid |-> TRUE, creator_blacklist |-> {},
     min_activity_density |-> MinActivityDensity,
     fee_limit_percent |-> FeeLimitPercent]

DefaultConfig ==
    [creator_blacklist |-> {}, bitquery_api_key |-> TRUE,
     require_live_stream |-> FALSE, require_twitter |-> FALSE,
     min_activity_density |-> MinActivityDensity,
     fee_limit_percent |-> FeeLimitPercent]

\* the keys of config.json that the dashboard does not rewrite in a run
ConfigFlags ==
    {[bitquery_api_key |-> TRUE, require_live_stream |-> FALSE, require_twitter |-> FALSE],
     [bitquery_api_key |-> FALSE, require_live_stream |-> FALSE, require_twitter |-> FALSE],
     [bitquery_api_key |-> TRUE, require_live_stream |-> TRUE, require_twitter |-> FALSE],
     [bitquery_api_key |-> TRUE, require_live_stream |-> FALSE, require_twitter |-> TRUE]}

\* ------------------------------------------------------------- candidates
NoCand ==
    [seq |-> 0, mint |-> None, creator |-> None,
     budget_exceeded |-> FALSE,   \* observation: is_budget_exceeded() at dequeue
     blacklisted |-> FALSE,       \* observation: creator in the blacklist at line 113
     stages |-> <<>>,             \* observation: stages invoked, in order
     rejected_by |-> None,        \* observation: the stage that rejected
     approved_by |-> None,        \* observation: the return True of should_snipe
     bought |-> FALSE,            \* observation: buy_sig was truthy
     arrival |-> 0,               \* observation: the event was the n-th the stream delivered
     api_failed |-> FALSE,        \* observation: the API answered non-200 or the call raised
     holder_read_failed |-> FALSE, \* observation: largest-accounts read raised or had < 2 accounts
     holder_over |-> FALSE,       \* observation: concentration above the threshold
     raised |-> None,             \* observation: the step whose exception reached sniper_main
     density |-> 0]               \* observation: what get_unique_buyers returned

NewCand(ev, n) ==
    [NoCand EXCEPT !.seq = n, !.mint = ev.mint, !.creator = ev.creator,
                   !.arrival = ev.arrival]


\* no submission is modelled in Spec
NoSub == [pc |-> "unused"]

\* the detailed manage_position task is modelled in SpecPosition only
NoPos == [pc |-> "unused"]

\* the detailed buy is modelled in SpecBuy only
NoBuy == [pc |-> "unused"]

Init ==
    /\ token_queue = <<>>
    /\ delivered = 0
    /\ config_json \in {[DefaultFile EXCEPT !.creator_blacklist = b] : b \in Blacklists}
    /\ \E flags \in ConfigFlags :
         CONFIG = [DefaultConfig EXCEPT
                      !.creator_blacklist = config_json.creator_blacklist,
                      !.bitquery_api_key = flags.bitquery_api_key,
                      !.require_live_stream = flags.require_live_stream,
                      !.require_twitter = flags.require_twitter]
    /\ stats_tracker = TradingStats(InitialCapital, FeeLimitPercent)
    /\ cpc = "get"
    /\ cand = NoCand
    /\ positions = <<>>
    /\ sub = NoSub
    /\ pos = NoPos
    /\ buy = NoBuy

\* ---------------------------------------------------------------- listener
\* listen_new_tokens.pusher: queue.put_nowait(event)
pusher ==
    /\ cpc # "exited"          \* the listener task is cancelled with the loop
    /\ delivered < MaxEvents
    /\ \E ev \in Events :
         token_queue' = Append(token_queue,
                               [mint |-> ev.mint, creator |-> ev.creator,
                                arrival |-> delivered + 1])   \* observation
    /\ delivered' = delivered + 1
    /\ UNCHANGED <<config_json, CONFIG, stats_tracker, cpc, cand, positions, sub, pos, buy>>

\* the dashboard rewrites config.json (or leaves it unreadable)
EditConfig ==
    /\ \E f \in [valid : BOOLEAN, creator_blacklist : Blacklists] :
         /\ f # [valid |-> config_json.valid,
                 creator_blacklist |-> config_json.creator_blacklist]
         /\ config_json' = [config_json EXCEPT
                               !.valid = f.valid,
                               !.creator_blacklist = f.creator_blacklist]
    /\ UNCHANGED <<token_queue, delivered, CONFIG, stats_tracker, cpc, cand,
                   positions, sub, pos, buy>>

\* ------------------------------------------------------------ filter stages
Invoke(c, stage) == [c EXCEPT !.stages = Append(@, stage)]
Reject(c, stage) == [c EXCEPT !.rejected_by = stage]

\* should_snipe_bitquery up to its first await: no api key, return False
bitquery_configured(cfg) == cfg.bitquery_api_key

\* the consumer calls stage `stage` for c: where it waits next
\* Line 170 evaluates Pubkey.from_string(mint_address) before the await of
\* the curve stage, outside every try of should_snipe; the call of line 386
\* is outside the inner try of sniper_main, so the ValueError is caught at
\* line 434 only: FATAL is logged and sniper_main returns.
Start(c, stage, cfg) ==
    IF stage = "bitquery" /\ ~bitquery_configured(cfg)
    THEN [pc |-> "get", cand |-> Reject(Invoke(c, stage), stage)]
    ELSE IF stage = "curve" /\ ~valid_pubkey(c.mint)
    THEN [pc |-> "fatal", cand |-> [Invoke(c, stage) EXCEPT !.raised = stage]]
    ELSE [pc |-> stage, cand |-> Invoke(c, stage)]

\* the check reads the built-in default list instead of the reloaded one
blacklist_check_default(creator, cfg) == creator \in {}

\* should_snipe line 113
blacklist_check(creator, cfg) == creator \in cfg.creator_blacklist

\* should_snipe from its call to its first await (lines 105-120)
start_should_snipe(c, cfg) ==
    LET c1 == [Invoke(c, "blacklist") EXCEPT
                   !.blacklisted = c.creator \in cfg.creator_blacklist]
    IN  IF blacklist_check(c.creator, cfg)
        THEN [pc |-> "get", cand |-> Reject(c1, "blacklist")]
        ELSE Start(c1, "api", cfg)

\* answers of the analytics API (GET /tokens/{mint}, timeout 1.5 s)
ApiResponses ==
    [status : {200}, risk : {50, 80}, prog : {5, 30}]
        \cup {[status |-> 500], [status |-> 0]}    \* 0: the request raised

\* a non-success answer rejects
api_verdict_fail_closed(resp) ==
    IF resp.status = 200
    THEN IF resp.risk > ApiRiskThreshold THEN "reject"
         ELSE IF ~(CurveProgressMin <= resp.prog /\ resp.prog <= CurveProgressMax)
              THEN "reject"
              ELSE "approve"
    ELSE "reject"

\* should_snipe lines 118-136
api_verdict(resp) ==
    IF resp.status = 200
    THEN IF resp.risk > ApiRiskThreshold THEN "reject"
         ELSE IF ~(CurveProgressMin <= resp.prog /\ resp.prog <= CurveProgressMax)
              THEN "reject"
              ELSE "approve"
    ELSE "fallthrough"

\* rows of get_creator_stats and get_token_analytics
CreatorRows ==
    [kind : {"row"}, score : {20, 50}, rugs : {0, 1}]
        \cup {[kind |-> "none"], [kind |-> "exception"]}
TokenRows ==
    [kind : {"row"}, risk : {50, 80}, mc : {1000, 9000}]
        \cup {[kind |-> "none"], [kind |-> "exception"]}

\* should_snipe lines 139-167
db_verdict(cr, tk) ==
    IF cr.kind = "exception" THEN "pass"
    ELSE IF cr.kind = "row" /\ (cr.score < DbScoreMin \/ cr.rugs > 0) THEN "reject"
    ELSE IF tk.kind = "row" /\ tk.risk > DbRiskThreshold THEN "reject"
    ELSE IF tk.kind = "row" /\ tk.mc < MinMarketCapUsd THEN "reject"
    ELSE "pass"

\* get_bonding_curve_state: None, or a state with this progress
CurveStates == {[kind |-> "none"]} \cup [kind : {"state"}, progress : {5, 30, 70}]

\* should_snipe lines 170-176
curve_verdict(st) ==
    IF st.kind = "none" THEN "reject"
    ELSE IF ~(CurveProgressMin <= st.progress /\ st.progress <= CurveProgressMax)
         THEN "reject"
         ELSE "pass"

\* should_snipe lines 178-181
density_verdict(density, cfg) ==
    IF density < cfg.min_activity_density THEN "reject" ELSE "pass"

\* get_unique_buyers: signatures of the last 60 s
Densities == {1, 2}

\* the sentiment stage runs before the holder stage
StageAfter_swapped(stage) ==
    CASE stage = "api" -> "db"
      [] stage = "db" -> "curve"
      [] stage = "curve" -> "density"
      [] stage = "density" -> "sentiment"
      [] stage = "sentiment" -> "holder"
      [] stage = "holder" -> "bitquery"
      [] stage = "bitquery" -> "signals"

\* should_snipe in its textual order, then Steps 2 and 3 of sniper_main:
\* the stage that follows a pass of `stage`
StageAfter(stage) ==
    CASE stage = "api" -> "db"
      [] stage = "db" -> "curve"
      [] stage = "curve" -> "density"
      [] stage = "density" -> "holder"
      [] stage = "holder" -> "sentiment"
      [] stage = "sentiment" -> "bitquery"
      [] stage = "bitquery" -> "signals"

\* get_token_largest_accounts as check_holder_concentration reads it
HolderReads ==
    {[kind |-> "exception"], [kind |-> "few"]}
        \cup [kind : {"accounts"}, concentration : {10, 40}]

\* a failed read rejects
check_holder_concentration_fail_closed(rd, threshold_pct) ==
    IF rd.kind = "exception" THEN FALSE
    ELSE IF rd.kind = "few" THEN TRUE
    ELSE ~(rd.concentration > threshold_pct)

\* check_holder_concentration (flow_filters.py)
check_holder_concentration(rd, threshold_pct) ==
    IF rd.kind = "exception" THEN TRUE
    ELSE IF rd.kind = "few" THEN TRUE
    ELSE ~(rd.concentration > threshold_pct)

\* get_token_metadata followed by analyze_token_sentiment
SentimentReads ==
    {[kind |-> "exception"], [kind |-> "none"]}
        \cup [kind : {"score"}, ai_score : {20, 60}]

\* should_snipe lines 188-198
sentiment_verdict(rd) ==
    IF rd.kind = "score" /\ rd.ai_score < MinAiScore THEN "reject" ELSE "pass"

\* get_token_flow_metrics: None, or the metrics of the last five minutes
FlowMetrics ==
    {[kind |-> "none"]}
        \cup [kind : {"metrics"}, hasGraduated : BOOLEAN, prog : {5, 30},
              buys : {2, 10}, volume : {100, 2000}, sells : {3, 20}]

\* should_snipe_bitquery after get_token_flow_metrics
bitquery_verdict(m) ==
    IF m.kind = "none" THEN "reject"
    ELSE IF m.hasGraduated THEN "reject"
    ELSE IF ~(CurveProgressMin <= m.prog /\ m.prog <= CurveProgressMax) THEN "reject"
    ELSE IF m.buys < BitqueryMinBuyers THEN "reject"
    ELSE IF m.volume < BitqueryMinVolume THEN "reject"
    ELSE IF 2 * m.sells > 3 * m.buys THEN "reject"
    ELSE "pass"

\* get_token_signals
Signals == [has_live_stream : BOOLEAN, twitter : BOOLEAN]

\* should_snipe_signals
signals_verdict(sg, cfg) ==
    IF cfg.require_live_stream /\ ~sg.has_live_stream THEN "reject"
    ELSE IF cfg.require_twitter /\ ~sg.twitter THEN "reject"
    ELSE "pass"

\* ----------------------------------------------------- consumer (sniper_main)
consUnch == <<token_queue, delivered, config_json, stats_tracker, positions, sub, pos, buy>>

\* the newest item is taken instead of the oldest
queue_get_lifo(q) == [item |-> q[Len(q)], rest |-> SubSeq(q, 1, Len(q) - 1)]

\* asyncio.Queue.get on a non-empty queue: the oldest item leaves
queue_get(q) == [item |-> Head(q), rest |-> Tail(q)]

\* candidate = await token_queue.get() ... up to the first await behind it
Dequeue ==
    /\ cpc = "get"
    /\ token_queue # <<>>
    /\ LET ev == queue_get(token_queue).item
           \* the observation is taken from the fields, not from the call
           c0 == [NewCand(ev, cand.seq + 1) EXCEPT
                      !.budget_exceeded =
                          stats_tracker.total_fees_lamports * 100
                              >= stats_tracker.initial_capital * stats_tracker.limit_pct]
       IN  /\ token_queue' = queue_get(token_queue).rest
           /\ IF is_budget_exceeded(stats_tracker)
              THEN /\ cand' = c0
                   /\ cpc' = "get"
                   /\ CONFIG' = CONFIG
              ELSE /\ CONFIG' = reload_config(CONFIG, config_json)
                   /\ IF ev.mint = None \/ ev.creator = None
                      THEN /\ cpc' = "extract"
                           /\ cand' = c0
                      ELSE LET nx == start_should_snipe(c0, CONFIG')
                           IN  /\ cpc' = nx.pc
                               /\ cand' = nx.cand
    /\ UNCHANGED <<delivered, config_json, stats_tracker, positions, sub, pos, buy>>

\* token_data = await extract_token_data(executor.client, sig)
Extract ==
    /\ cpc = "extract"
    /\ \E data \in {None} \cup Mints :
         IF data = None
         THEN /\ cpc' = "get"
              /\ cand' = cand
         ELSE LET nx == start_should_snipe(
                            [cand EXCEPT !.mint = data, !.creator = CreatorOf(data)],
                            CONFIG)
              IN  /\ cpc' = nx.pc
                  /\ cand' = nx.cand
    /\ UNCHANGED CONFIG
    /\ UNCHANGED consUnch

\* a stage answered with verdict v for the candidate record c (cand with the
\* observations of the stage's read added); `next` is the stage that follows
\* a pass
VerdictOn(c, stage, v, next) ==
    LET nx == IF v = "reject"
              THEN [pc |-> "get", cand |-> Reject(c, stage)]
              ELSE Start(c, next, CONFIG)
    IN  /\ cpc' = nx.pc
        /\ cand' = nx.cand
        /\ UNCHANGED CONFIG
        /\ UNCHANGED consUnch

\* a rejecting stage logs but misses its return False
Verdict_no_return(stage, v, next) ==
    LET nx == Start(IF v = "reject" THEN Reject(cand, stage) ELSE cand, next, CONFIG)
    IN  /\ cpc' = nx.pc
        /\ cand' = nx.cand
        /\ UNCHANGED CONFIG
        /\ UNCHANGED consUnch

\* a stage answered with verdict v; `next` is the stage that follows a pass
Verdict(stage, v, next) == VerdictOn(cand, stage, v, next)

\* 2. analytics API
StageApi ==
    /\ cpc = "api"
    /\ \E resp \in ApiResponses :
         LET v == api_verdict(resp)
             c1 == [cand EXCEPT !.api_failed = (resp.status # 200)]
         IN  IF v = "approve"
             THEN LET nx == Start([c1 EXCEPT !.approved_by = "api"], "bitquery", CONFIG)
                  IN  /\ cpc' = nx.pc
                      /\ cand' = nx.cand
                      /\ UNCHANGED CONFIG
                      /\ UNCHANGED consUnch
             ELSE VerdictOn(c1, "api", v, StageAfter("api"))

\* 2.5 local database
StageDb ==
    /\ cpc = "db"
    /\ \E cr \in CreatorRows, tk \in TokenRows :
         Verdict("db", db_verdict(cr, tk), StageAfter("db"))

\* 3. bonding-curve progress
StageCurve ==
    /\ cpc = "curve"
    /\ \E st \in CurveStates : Verdict("curve", curve_verdict(st), StageAfter("curve"))

\* 3. recent-buyer density
StageDensity ==
    /\ cpc = "density"
    /\ \E d \in Densities :
         VerdictOn([cand EXCEPT !.density = d],
                   "density", density_verdict(d, CONFIG), StageAfter("density"))

\* 4. holder concentration
StageHolder ==
    /\ cpc = "holder"
    /\ \E rd \in HolderReads :
         VerdictOn([cand EXCEPT
                       !.holder_read_failed = (rd.kind \in {"exception", "few"}),
                       !.holder_over = (rd.kind = "accounts"
                                          /\ rd.concentration > MaxConcentrationPct)],
                   "holder",
                   IF check_holder_concentration(rd, MaxConcentrationPct)
                   THEN "pass" ELSE "reject",
                   StageAfter("holder"))

\* 5. sentiment; a pass is the return True of should_snipe
StageSentiment ==
    /\ cpc = "sentiment"
    /\ \E rd \in SentimentReads :
         LET v == sentiment_verdict(rd)
         IN  IF v = "reject"
             THEN Verdict("sentiment", v, StageAfter("sentiment"))
             ELSE LET nx == Start([cand EXCEPT !.approved_by = "chain"],
                                  StageAfter("sentiment"), CONFIG)
                  IN  /\ cpc' = nx.pc
                      /\ cand' = nx.cand
                      /\ UNCHANGED CONFIG
                      /\ UNCHANGED consUnch

\* Step 2 of sniper_main: should_snipe_bitquery
StageBitquery ==
    /\ cpc = "bitquery"
    /\ \E m \in FlowMetrics : Verdict("bitquery", bitquery_verdict(m), StageAfter("bitquery"))

\* Step 3 of sniper_main: should_snipe_signals; a pass leads to the buy
StageSignals ==
    /\ cpc = "signals"
    /\ \E sg \in Signals :
         LET v == signals_verdict(sg, CONFIG)
         IN  /\ IF v = "reject"
                THEN /\ cpc' = "get"
                     /\ cand' = Reject(cand, "signals")
                ELSE IF ~valid_pubkey(cand.mint)
                THEN \* line 398 raises inside the try: logged at line 429
                     /\ cpc' = "get"
                     /\ cand' = [cand EXCEPT !.raised = "curve_state"]
                ELSE /\ cpc' = "buy"
                     /\ cand' = cand
             /\ UNCHANGED CONFIG
             /\ UNCHANGED consUnch

\* lines 398-427: curve state, tip, buy_token / buy_multi_wallet, and on a
\* truthy buy_sig the trade record and create_task(manage_position)
NewPosition(c) ==
    [mint |-> c.mint, creator |-> c.creator, seq |-> c.seq, pc |-> "monitor",
     sold |-> FALSE,      \* observation: sell_sig was truthy
     fee |-> 0,           \* observation: the fee handed to add_fee
     cancelled_in |-> None,  \* observation: where the task was when it was cancelled
     admitted_over_budget |-> c.budget_exceeded]  \* observation: see NoCand

Buy ==
    /\ cpc = "buy"
    /\ \E buy_sig \in {"sig", None} :
         IF buy_sig # None
         THEN /\ positions' = Append(positions, NewPosition(cand))
              /\ cand' = [cand EXCEPT !.bought = TRUE]
         ELSE /\ positions' = positions
              /\ cand' = cand
    /\ cpc' = "get"
    /\ UNCHANGED <<token_queue, delivered, config_json, CONFIG, stats_tracker, sub, pos, buy>>

\* ------------------------------------------------- manage_position (one task)
posUnch == <<token_queue, delivered, config_json, CONFIG, cpc, cand, sub, pos, buy>>

\* the monitoring loop breaks on one of its exit triggers
ExitTrigger(i) ==
    /\ positions[i].pc = "monitor"
    /\ positions' = [positions EXCEPT ![i].pc = "sell"]
    /\ UNCHANGED stats_tracker
    /\ UNCHANGED posUnch

\* lines 280-287 and 330-332: sell_sig = await executor.sell_token(...)
Sell(i) ==
    /\ positions[i].pc = "sell"
    /\ \E sell_sig \in {"sig", None} :
         positions' = [positions EXCEPT
                          ![i].pc = IF sell_sig # None THEN "fee" ELSE "done",
                          ![i].sold = (sell_sig # None)]
    /\ UNCHANGED stats_tracker
    /\ UNCHANGED posUnch

\* lines 291-329: get_transaction, add_fee, trade record
FeeCapture(i) ==
    /\ positions[i].pc = "fee"
    /\ \/ \E fee \in Fees :          \* tx.value and its meta are there
              /\ stats_tracker' = add_fee(stats_tracker, fee)
              /\ positions' = [positions EXCEPT ![i].pc = "done", ![i].fee = fee]
       \/ /\ stats_tracker' = stats_tracker   \* no tx.value, or the read raised
          /\ positions' = [positions EXCEPT ![i].pc = "done"]
    /\ UNCHANGED posUnch

\* Lines 434-441: the except of sniper_main logs FATAL and returns, so
\* asyncio.run(sniper_main()) finishes: it cancels every task still pending.
\* CancelledError passes the "except Exception" handlers of sell_token and
\* manage_position, so a task awaiting the sell or the fee read ends there; a
\* monitoring task ends too unless it is awaiting inside the bare except of
\* line 253, which swallows the cancellation (asyncio.run then waits for it).
Shutdown ==
    /\ cpc = "fatal"
    /\ cpc' = "exited"
    /\ \E swallow \in SUBSET {i \in 1..Len(positions) : positions[i].pc = "monitor"} :
         positions' =
             [i \in 1..Len(positions) |->
                 IF positions[i].pc = "done" \/ i \in swallow
                 THEN positions[i]
                 ELSE [positions[i] EXCEPT !.pc = "cancelled",
                                           !.cancelled_in = positions[i].pc]]
    /\ UNCHANGED <<token_queue, delivered, config_json, CONFIG, stats_tracker,
                   cand, sub, pos, buy>>

Next ==
    \/ pusher
    \/ EditConfig
    \/ Dequeue
    \/ Extract
    \/ StageApi
    \/ StageDb
    \/ StageCurve
    \/ StageDensity
    \/ StageHolder
    \/ StageSentiment
    \/ StageBitquery
    \/ StageSignals
    \/ Buy
    \/ \E i \in 1..Len(positions) : ExitTrigger(i)
    \/ \E i \in 1..Len(positions) : Sell(i)
    \/ \E i \in 1..Len(positions) : FeeCapture(i)
    \/ Shutdown

Spec == Init /\ [][Next]_vars

\* ===================================================================
\* SpecReload: the pipeline with a dashboard that edits the thresholds
\* ===================================================================
\* values the dashboard writes for min_activity_density and fee_limit_percent
DensityThresholds == {2, 3}
FeeFractions == {1, 2}

InitReload ==
    /\ token_queue = <<>>
    /\ delivered = 0
    /\ config_json = DefaultFile
    /\ CONFIG = DefaultConfig
    /\ stats_tracker = TradingStats(InitialCapital, CONFIG.fee_limit_percent)
    /\ cpc = "get"
    /\ cand = NoCand
    /\ positions = <<>>
    /\ sub = NoSub
    /\ pos = NoPos
    /\ buy = NoBuy

\* api.py update_config: the dashboard rewrites config.json with new
\* thresholds (or leaves it unreadable)
EditThresholds ==
    /\ \E f \in [valid : BOOLEAN, min_activity_density : DensityThresholds,
                  fee_limit_percent : FeeFractions] :
         /\ f # [valid |-> config_json.valid,
                 min_activity_density |-> config_json.min_activity_density,
                 fee_limit_percent |-> config_json.fee_limit_percent]
         /\ config_json' = [config_json EXCEPT
                               !.valid = f.valid,
                               !.min_activity_density = f.min_activity_density,
                               !.fee_limit_percent = f.fee_limit_percent]
    /\ UNCHANGED <<token_queue, delivered, CONFIG, stats_tracker, cpc, cand,
                   positions, sub, pos, buy>>

NextReload ==
    \/ EditThresholds
    \/ pusher
    \/ Dequeue
    \/ Extract
    \/ StageApi
    \/ StageDb
    \/ StageCurve
    \/ StageDensity
    \/ StageHolder
    \/ StageSentiment
    \/ StageBitquery
    \/ StageSignals
    \/ Buy
    \/ \E i \in 1..Len(positions) : ExitTrigger(i)
    \/ \E i \in 1..Len(positions) : Sell(i)
    \/ \E i \in 1..Len(positions) : FeeCapture(i)
    \/ Shutdown

SpecReload == InitReload /\ [][NextReload]_vars

\* the state of the spec's Position state machine
PositionState(p) ==
    IF p.pc \in {"monitor", "poll", "creator"} THEN "Monitoring"
    ELSE IF p.pc = "done" THEN "Closed"
    ELSE IF p.pc = "cancelled" THEN "Cancelled"
    ELSE "Exiting"

\* ===================================================================
\* SpecSubmit: buy_token / sell_token -> simulate_and_send
\* ===================================================================
TipNone == 0 - 1                 \* tip=None (manage_position, transfer_profits)
BaseTips == {0, 1000}            \* cfg jito_tip_lamports; 0 means disabled
TipOverrides == {TipNone, 0, 1500}

\* one call of buy_token or sell_token with its configuration
NewSub(side, tip_override, jito_tip_lamports, allow, backup) ==
    [pc |-> "build",
     side |-> side,
     tip_override |-> tip_override,
     jito_tip_lamports |-> jito_tip_lamports,
     allow_mev_fallback |-> allow,        \* cfg.get("allow_mev_fallback", True)
     backup_client |-> backup,
     active_client |-> "none",
     signed |-> FALSE,
     tip_ix |-> FALSE,                    \* send_jito_bundle appended the tip transfer
     bundle_id |-> "pending",             \* what send_jito_bundle returned
     allowed_at_decision |-> "undecided", \* observation: line 395 as it was read
     relay_calls |-> 0,                   \* observation: POSTs to the relay
     sim_calls |-> 0,                     \* observation: simulate_transaction calls
     send_calls |-> 0,                    \* observation: send_transaction calls
     status_polls |-> 0,                  \* observation: get_signature_statuses calls
     error |-> "none",                    \* the exception simulate_and_send raised
     result |-> "pending"]                \* what buy_token / sell_token returned

InitSubmit ==
    /\ token_queue = <<>>
    /\ delivered = 0
    /\ config_json = DefaultFile
    /\ CONFIG = DefaultConfig
    /\ stats_tracker = TradingStats(InitialCapital, FeeLimitPercent)
    /\ cpc = "get"
    /\ cand = NoCand
    /\ positions = <<>>
    /\ pos = NoPos
    /\ buy = NoBuy
    /\ \E side \in {"buy", "sell"}, t \in TipOverrides, b \in BaseTips,
          allow \in BOOLEAN, backup \in BOOLEAN :
         sub = NewSub(side, t, b, allow, backup)

\* simulate_and_send line 385
effective_tip(tip_override, jito_tip_lamports) ==
    IF tip_override # TipNone THEN tip_override ELSE jito_tip_lamports

\* the early return on an accepted bundle is missing
after_relay_no_return(bundle_id, allow) ==
    IF allow THEN "simulate" ELSE "raise_mev"

\* the fallback flag is not consulted
after_relay_always_fallback(bundle_id, allow) ==
    IF bundle_id # "none" THEN "return_bundle" ELSE "simulate"

\* simulate_and_send lines 391-403, bundle_id being what the relay call
\* returned ("none" when the relay was not called or did not accept)
after_relay(bundle_id, allow) ==
    IF bundle_id # "none" THEN "return_bundle"
    ELSE IF allow THEN "simulate"
    ELSE "raise_mev"

\* the exception leaves simulate_and_send; buy_token / sell_token log it and
\* return None
Raise(sb, err) == [sb EXCEPT !.pc = "returned", !.error = err, !.result = "None"]

\* lines 391-403 applied to the submission sb
Decide(sb, bundle_id) ==
    LET d == after_relay(bundle_id, sb.allow_mev_fallback)
        s1 == [sb EXCEPT !.bundle_id = bundle_id]
    IN  IF d = "return_bundle"
        THEN [s1 EXCEPT !.pc = "returned", !.result = bundle_id]
        ELSE LET s2 == [s1 EXCEPT !.allowed_at_decision =
                                      IF sb.allow_mev_fallback THEN "yes" ELSE "no"]
             IN  IF d = "simulate"
                 THEN [s2 EXCEPT !.pc = "simulate"]
                 ELSE Raise(s2, "mev_enforcement")

\* buy_token lines 186-222 / sell_token lines 257-297: balance read, quote,
\* instructions, priority fee
SubBuild ==
    /\ sub.pc = "build"
    /\ \E r \in {"ok", "raise", "no_balance"} :
         /\ r = "no_balance" => sub.side = "sell"
         /\ sub' = IF r = "ok" THEN [sub EXCEPT !.pc = "begin"]
                   ELSE IF r = "raise" THEN Raise(sub, "build")
                   ELSE [sub EXCEPT !.pc = "returned", !.result = "None"]
    /\ UNCHANGED pipeVars

\* get_healthy_client
get_healthy_client(backup_client, primary_responds) ==
    IF ~backup_client THEN "primary"
    ELSE IF primary_responds THEN "primary" ELSE "backup"

\* simulate_and_send lines 379-388: client, blockhash, sign, tip
SubBegin ==
    /\ sub.pc = "begin"
    /\ \E primary_responds \in BOOLEAN, blockhash_ok \in BOOLEAN :
         LET s1 == [sub EXCEPT !.active_client =
                        get_healthy_client(sub.backup_client, primary_responds)]
         IN  IF ~blockhash_ok
             THEN sub' = Raise(s1, "blockhash")
             ELSE LET s2 == [s1 EXCEPT !.signed = TRUE]
                  IN  IF effective_tip(sub.tip_override, sub.jito_tip_lamports) > 0
                      THEN sub' = [s2 EXCEPT !.pc = "relay"]
                      ELSE sub' = Decide(s2, "none")
    /\ UNCHANGED pipeVars

\* answers of the block engine to sendBundle, as send_jito_bundle maps them
RelayAnswers == {"bundle_id", "no_result", "http_error", "exception"}

\* send_jito_bundle: no tip, no bundle (lines 433-435); otherwise the result
\* of an HTTP 200 answer, None on any other answer or exception (461-472)
relay_return(tip_lamports, answer) ==
    IF tip_lamports = 0 THEN "none"
    ELSE IF answer = "bundle_id" THEN "bundle_id"
    ELSE "none"

\* send_jito_bundle and the lines 391-403 behind it
SubRelay ==
    /\ sub.pc = "relay"
    /\ \E answer \in RelayAnswers :
         LET tip == effective_tip(sub.tip_override, sub.jito_tip_lamports)
         IN  sub' = Decide([sub EXCEPT !.tip_ix = (tip # 0),
                                       !.relay_calls = IF tip # 0 THEN @ + 1 ELSE @],
                           relay_return(tip, answer))
    /\ UNCHANGED pipeVars

\* lines 398-400
SubSimulate ==
    /\ sub.pc = "simulate"
    /\ \E sim \in {"ok", "err", "exception"} :
         LET s1 == [sub EXCEPT !.sim_calls = @ + 1]
         IN  sub' = IF sim = "ok" THEN [s1 EXCEPT !.pc = "send"]
                    ELSE IF sim = "err" THEN Raise(s1, "simulation")
                    ELSE Raise(s1, "rpc")
    /\ UNCHANGED pipeVars

\* line 401: return await active_client.send_transaction(tx, *signers).  The
\* loop of lines 405-429 (resend, get_signature_statuses polling) follows a
\* return and a raise and never runs, so status_polls stays 0.
SubSend ==
    /\ sub.pc = "send"
    /\ \E sent \in BOOLEAN :
         LET s1 == [sub EXCEPT !.send_calls = @ + 1]
         IN  sub' = IF sent
                    THEN [s1 EXCEPT !.pc = "returned", !.result = "signature"]
                    ELSE Raise(s1, "send")
    /\ UNCHANGED pipeVars

\* the consumer reloads CONFIG (the dict the executor holds as cfg) while a
\* sell of a manage_position task is awaiting
SubReload ==
    /\ sub.pc \in {"build", "begin", "relay", "simulate", "send"}
    /\ sub.side = "sell"
    /\ sub' = [sub EXCEPT !.allow_mev_fallback = ~@]
    /\ UNCHANGED pipeVars

NextSubmit ==
    \/ SubBuild
    \/ SubBegin
    \/ SubRelay
    \/ SubSimulate
    \/ SubSend
    \/ SubReload

SpecSubmit == InitSubmit /\ [][NextSubmit]_vars

\* ===================================================================
\* SpecPosition: one manage_position task
\* ===================================================================
TakeProfitPercent == 50         \* CONFIG["take_profit_percent"]
StopLossPercent == 20           \* CONFIG["stop_loss_percent"]
TrailingStopLossPercent == 5    \* CONFIG.get("trailing_stop_loss_percent", 5.0)
TrailingArmPercent == 10        \* manage_position: profit_pct > 10.0

\* CONFIG.get("ladder_exits", [{"pct": 25.0, "sell": 50}]): the default, and
\* a two-entry list
LadderConfigs ==
    {<<[pct |-> 25, sell |-> 50]>>,
     <<[pct |-> 25, sell |-> 50], [pct |-> 40, sell |-> 25]>>}

\* entry_price as sniper_main passes it: state.get_price_sol(), or 0.0 when
\* the curve state could not be read at the buy (price units)
EntryPrices == {0, 100}

\* state.get_price_sol() at a poll (price units)
Prices == {80, 95, 105, 115, 130, 145, 150}

\* get_bonding_curve_state at a poll: None, or a state
PollStates ==
    {[kind |-> "none"]} \cup [kind : {"state"}, price : Prices, complete : BOOLEAN]

\* get_token_account_balance of the creator, as lines 245-254 read it
CreatorBalances == {"exception", "no_value", "zero", "positive"}

LadderUnset == 0 - 1            \* "ladder_index" not in locals()

\* manage_position at its first await
NewPos(entry_price, ladders) ==
    [pc |-> "poll",
     entry_price |-> entry_price,
     peak_price |-> entry_price,
     current_price |-> entry_price,   \* unbound until the first poll with a state
     complete |-> FALSE,              \* state.complete of the last poll
     ladders |-> ladders,
     ladder_index |-> LadderUnset,
     armed_ever |-> FALSE,            \* observation: profit_pct > 10 at some poll
     creator_nonzero_seen |-> FALSE,  \* observation: a poll read a positive creator balance
     trigger |-> None,                \* observation: the break that was taken
     exceeded_at_trigger |-> FALSE,   \* observation: budget exceeded at that break
     ladder_fired |-> <<>>,           \* observation: ladder entries fired, in order
     sell_calls |-> 0,                \* observation: sell_token calls
     sold |-> FALSE,                  \* observation: sell_sig was truthy
     alerts |-> 0,                    \* observation: send_telegram_alert calls
     fee_calls |-> 0,                 \* observation: add_fee calls of this task
     fee |-> 0]                       \* observation: the fee handed to add_fee

InitPosition ==
    /\ token_queue = <<>>
    /\ delivered = 0
    /\ config_json = DefaultFile
    /\ CONFIG = DefaultConfig
    /\ stats_tracker = TradingStats(InitialCapital, FeeLimitPercent)
    /\ cpc = "get"
    /\ cand = NoCand
    /\ positions = <<>>
    /\ sub = NoSub
    /\ buy = NoBuy
    /\ \E e \in EntryPrices, l \in LadderConfigs : pos = NewPos(e, l)

\* profit_pct >= pct, for entry > 0:  (cur - entry) / entry * 100 >= pct
ProfitAtLeast(entry, cur, pct) == (cur - entry) * 100 >= pct * entry

\* profit_pct > pct, for entry > 0
ProfitAbove(entry, cur, pct) == (cur - entry) * 100 > pct * entry

\* profit_pct <= -pct, for entry > 0:  (entry - cur) / entry * 100 >= pct
LossAtLeast(entry, cur, pct) == (entry - cur) * 100 >= pct * entry

\* drop_from_peak >= pct:  (peak - cur) / peak * 100 >= pct
DropAtLeast(peak, cur, pct) == (peak - cur) * 100 >= pct * peak

\* take-profit compared with > in place of >=
exit_trigger_strict_tp(entry, peak, cur) ==
    IF ProfitAbove(entry, cur, TakeProfitPercent) THEN "take_profit"
    ELSE IF ProfitAbove(entry, cur, TrailingArmPercent)
            /\ DropAtLeast(peak, cur, TrailingStopLossPercent) THEN "trailing_stop"
    ELSE IF LossAtLeast(entry, cur, StopLossPercent) THEN "stop_loss"
    ELSE "none"

\* the trailing stop without its profit condition
exit_trigger_unarmed(entry, peak, cur) ==
    IF ProfitAtLeast(entry, cur, TakeProfitPercent) THEN "take_profit"
    ELSE IF DropAtLeast(peak, cur, TrailingStopLossPercent) THEN "trailing_stop"
    ELSE IF LossAtLeast(entry, cur, StopLossPercent) THEN "stop_loss"
    ELSE "none"

\* manage_position lines 227-241, for entry > 0
exit_trigger(entry, peak, cur) ==
    IF ProfitAtLeast(entry, cur, TakeProfitPercent) THEN "take_profit"
    ELSE IF ProfitAbove(entry, cur, TrailingArmPercent)
            /\ DropAtLeast(peak, cur, TrailingStopLossPercent) THEN "trailing_stop"
    ELSE IF LossAtLeast(entry, cur, StopLossPercent) THEN "stop_loss"
    ELSE "none"

\* the index is set to 0 on every pass
ladder_start_reset(ladder_index) == 0

\* line 263: if "ladder_index" not in locals(): ladder_index = 0
ladder_start(ladder_index) ==
    IF ladder_index = LadderUnset THEN 0 ELSE ladder_index

\* the break out of the monitoring loop
Break(p, trig) ==
    [p EXCEPT !.pc = "sell", !.trigger = trig,
              !.exceeded_at_trigger =
                  stats_tracker.total_fees_lamports * 100
                      >= stats_tracker.initial_capital * stats_tracker.limit_pct]

posSpecUnch == <<token_queue, delivered, config_json, CONFIG, cpc, cand,
                 positions, sub, buy>>

\* lines 215-241: one poll of the curve state up to the creator-balance read.
\* With entry_price 0 line 224 raises ZeroDivisionError after the peak update;
\* the except of line 275 sleeps and the loop goes on.
PollP ==
    /\ pos.pc = "poll"
    /\ \E st \in PollStates :
         IF st.kind = "none"
         THEN pos' = pos
         ELSE LET peak == IF st.price > pos.peak_price THEN st.price ELSE pos.peak_price
                  p1 == [pos EXCEPT !.current_price = st.price,
                                    !.peak_price = peak,
                                    !.complete = st.complete]
              IN  IF pos.entry_price = 0
                  THEN pos' = p1
                  ELSE LET trig == exit_trigger(pos.entry_price, peak, st.price)
                           p2 == [p1 EXCEPT !.armed_ever =
                                      @ \/ ProfitAbove(pos.entry_price, st.price,
                                                       TrailingArmPercent)]
                       IN  pos' = IF trig # "none" THEN Break(p2, trig)
                                  ELSE [p2 EXCEPT !.pc = "creator"]
    /\ UNCHANGED stats_tracker
    /\ UNCHANGED posSpecUnch

\* lines 243-274: creator balance, curve completion, ladder, sleep
CreatorP ==
    /\ pos.pc = "creator"
    /\ \E bal \in CreatorBalances :
         IF bal = "zero"
         THEN pos' = Break(pos, "emergency")
         ELSE IF pos.complete
         THEN pos' = Break([pos EXCEPT !.creator_nonzero_seen = @ \/ (bal = "positive")],
                           "curve_complete")
         ELSE LET idx == ladder_start(pos.ladder_index)
                  hit == /\ idx < Len(pos.ladders)
                         /\ ProfitAtLeast(pos.entry_price, pos.current_price,
                                          pos.ladders[idx + 1].pct)
              IN  pos' = [pos EXCEPT
                            !.pc = "poll",
                            !.creator_nonzero_seen = @ \/ (bal = "positive"),
                            !.ladder_index = IF hit THEN idx + 1 ELSE idx,
                            !.ladder_fired = IF hit THEN Append(@, idx + 1) ELSE @]
    /\ UNCHANGED stats_tracker
    /\ UNCHANGED posSpecUnch

\* a failed sell sends the task back into the monitoring loop
SellP_remonitor ==
    /\ pos.pc = "sell"
    /\ \E sell_sig \in {"sig", None} :
         pos' = IF sell_sig # None
                THEN [pos EXCEPT !.pc = "fee", !.sold = TRUE, !.sell_calls = @ + 1]
                ELSE [pos EXCEPT !.pc = "poll", !.alerts = @ + 1, !.sell_calls = @ + 1]
    /\ UNCHANGED stats_tracker
    /\ UNCHANGED posSpecUnch

\* the sell is skipped when the budget is exceeded
SellP_budget_gated ==
    /\ pos.pc = "sell"
    /\ IF is_budget_exceeded(stats_tracker)
       THEN pos' = [pos EXCEPT !.pc = "done"]
       ELSE \E sell_sig \in {"sig", None} :
              pos' = IF sell_sig # None
                     THEN [pos EXCEPT !.pc = "fee", !.sold = TRUE, !.sell_calls = @ + 1]
                     ELSE [pos EXCEPT !.pc = "done", !.alerts = @ + 1, !.sell_calls = @ + 1]
    /\ UNCHANGED stats_tracker
    /\ UNCHANGED posSpecUnch

\* lines 279-287 and 330-332: tip, sell_sig = await executor.sell_token(...);
\* without a signature the alert is sent and the task ends
SellP ==
    /\ pos.pc = "sell"
    /\ \E sell_sig \in {"sig", None} :
         pos' = IF sell_sig # None
                THEN [pos EXCEPT !.pc = "fee", !.sold = TRUE, !.sell_calls = @ + 1]
                ELSE [pos EXCEPT !.pc = "done", !.alerts = @ + 1, !.sell_calls = @ + 1]
    /\ UNCHANGED stats_tracker
    /\ UNCHANGED posSpecUnch

\* lines 291-329: sleep 3, get_transaction, add_fee when tx.value and its meta
\* are there, trade record, skim; the task ends
FeeP ==
    /\ pos.pc = "fee"
    /\ \/ \E fee \in Fees :
              /\ stats_tracker' = add_fee(stats_tracker, fee)
              /\ pos' = [pos EXCEPT !.pc = "done", !.fee_calls = @ + 1, !.fee = fee]
       \/ /\ stats_tracker' = stats_tracker   \* no tx.value, or the read raised
          /\ pos' = [pos EXCEPT !.pc = "done"]
    /\ UNCHANGED posSpecUnch

\* another manage_position task records the fee of its sell
OtherPositionFee ==
    /\ ~is_budget_exceeded(stats_tracker)
    /\ \E fee \in Fees : stats_tracker' = add_fee(stats_tracker, fee)
    /\ UNCHANGED pos
    /\ UNCHANGED posSpecUnch

NextPosition ==
    \/ PollP
    \/ CreatorP
    \/ SellP
    \/ FeeP
    \/ OtherPositionFee

SpecPosition == InitPosition /\ [][NextPosition]_vars

\* the event loop runs every task that is ready: each step of the task that
\* stays enabled is eventually taken
SpecPositionFair ==
    /\ SpecPosition
    /\ WF_vars(PollP)
    /\ WF_vars(CreatorP)
    /\ WF_vars(SellP)
    /\ WF_vars(FeeP)

\* ===================================================================
\* SpecBuy: sniper_main lines 398-432 for one approved candidate
\* ===================================================================
\* cfg jito_tip_lamports of the executor; 0 means disabled
JitoTips == {0, 1000, 1501}

\* real_sol_reserves of the curve state, in SOL
SolRaised == {0, 17, 34, 85, 170}

\* progress values handed to calculate_dynamic_jito_tip, in per cent
TipProgresses == {0, 1, 10, 33, 50, 80, 99, 100, 101, 150}

GraduationSol == 85     \* get_progress: 85 SOL graduation

Min(a, b) == IF a < b THEN a ELSE b

\* BondingCurveState.get_progress: min(sol_raised / 85 * 100, 100); the
\* fraction of a per cent is cut
get_progress(sol_raised) == Min((sol_raised * 100) \div GraduationSol, 100)

\* the progress is not clamped
calculate_dynamic_jito_tip_unclamped(jito_tip_lamports, progress) ==
    IF jito_tip_lamports = 0 THEN 0
    ELSE (jito_tip_lamports * (100 + progress)) \div 100

\* PumpFunExecutor.calculate_dynamic_jito_tip:
\* int(jito_tip_lamports * (1.0 + min(progress, 100.0) / 100.0))
calculate_dynamic_jito_tip(jito_tip_lamports, progress) ==
    IF jito_tip_lamports = 0 THEN 0
    ELSE (jito_tip_lamports * (100 + Min(progress, 100))) \div 100

\* get_bonding_curve_state at line 398: None, or a state
BuyCurveReads ==
    {[kind |-> "none"]}
        \cup [kind : {"state"}, sol_raised : SolRaised, price : EntryPrices]

NewBuy(jito_tip_lamports, use_multi_wallet, use_jupiter) ==
    [pc |-> "state",
     jito_tip_lamports |-> jito_tip_lamports,
     use_multi_wallet |-> use_multi_wallet,   \* CONFIG.get("use_multi_wallet", False)
     use_jupiter |-> use_jupiter,             \* cfg.get("use_jupiter", False)
     progress |-> 0,
     tip |-> 0,
     entry_price |-> 0,
     buy_sig |-> "pending",
     sent |-> FALSE,             \* observation: a transaction was handed to simulate_and_send
     failure_logged |-> FALSE,   \* observation: a log line reports the failed buy
     position_created |-> FALSE, \* observation: create_task(manage_position(...))
     consumer |-> "busy"]        \* where the consumer loop is

InitBuy ==
    /\ token_queue = <<>>
    /\ delivered = 0
    /\ config_json = DefaultFile
    /\ CONFIG = DefaultConfig
    /\ stats_tracker = TradingStats(InitialCapital, FeeLimitPercent)
    /\ cpc = "buy"
    /\ cand = NoCand
    /\ positions = <<>>
    /\ sub = NoSub
    /\ pos = NoPos
    /\ \E b \in JitoTips, mw \in BOOLEAN, jup \in BOOLEAN : buy = NewBuy(b, mw, jup)

buyUnch == <<token_queue, delivered, config_json, CONFIG, stats_tracker, cpc,
             cand, positions, sub, pos>>

\* lines 398-401: curve state, progress, tip, entry price
BuyCurveState ==
    /\ buy.pc = "state"
    /\ \E st \in BuyCurveReads :
         LET progress == IF st.kind = "state" THEN get_progress(st.sol_raised) ELSE 0
         IN  buy' = [buy EXCEPT
                       !.pc = "submit",
                       !.progress = progress,
                       !.tip = calculate_dynamic_jito_tip(buy.jito_tip_lamports, progress),
                       !.entry_price = IF st.kind = "state" THEN st.price ELSE 0]
    /\ UNCHANGED buyUnch

\* buy_multi_wallet: None without a curve state (get_bonding_curve_state
\* logged the error), else the constant bundle id; no transaction is built
buy_multi_wallet(read) ==
    IF read = "none"
    THEN [buy_sig |-> None, sent |-> FALSE, logged |-> TRUE]
    ELSE [buy_sig |-> "multi_wallet_bundle_id", sent |-> FALSE, logged |-> FALSE]

\* buy_token_jupiter: the swap plan raised, was empty, or was received
buy_token_jupiter(plan) ==
    IF plan = "exception"
    THEN [buy_sig |-> None, sent |-> FALSE, logged |-> TRUE]
    ELSE IF plan = "empty"
    THEN [buy_sig |-> None, sent |-> FALSE, logged |-> FALSE]
    ELSE [buy_sig |-> "simulated_jupiter_buy_sig", sent |-> FALSE, logged |-> FALSE]

\* buy_token on the SDK path: what simulate_and_send returned, or None after
\* the except of line 225 logged the error
buy_token_sdk(result) ==
    IF result = "exception"
    THEN [buy_sig |-> None, sent |-> FALSE, logged |-> TRUE]
    ELSE [buy_sig |-> "sig", sent |-> TRUE, logged |-> FALSE]

\* lines 405-410 and, without a signature, 431-432
BuySubmit ==
    /\ buy.pc = "submit"
    /\ \E r \in IF buy.use_multi_wallet
                THEN {buy_multi_wallet(read) : read \in {"none", "state"}}
                ELSE IF buy.use_jupiter
                THEN {buy_token_jupiter(plan) : plan \in {"exception", "empty", "plan"}}
                ELSE {buy_token_sdk(result) : result \in {"exception", "sig"}} :
         buy' = [buy EXCEPT
                   !.buy_sig = r.buy_sig,
                   !.sent = r.sent,
                   !.failure_logged = r.logged,
                   !.pc = IF r.buy_sig # None THEN "record" ELSE "done",
                   !.consumer = IF r.buy_sig # None THEN "busy" ELSE "get"]
    /\ UNCHANGED buyUnch

\* lines 410-427 and 431-432: alert, trade record (its error is logged and
\* dropped), create_task(manage_position)
BuyRecord ==
    /\ buy.pc = "record"
    /\ \E insert \in {"ok", "exception"} :
         buy' = [buy EXCEPT !.pc = "done",
                            !.position_created = TRUE,
                            !.consumer = "get"]
    /\ UNCHANGED buyUnch

NextBuy ==
    \/ BuyCurveState
    \/ BuySubmit
    \/ BuyRecord

SpecBuy == InitBuy /\ [][NextBuy]_vars

\* ===================================================================
\* Properties
\* ===================================================================
RECURSIVE SumFees(_)
SumFees(ps) == IF ps = <<>> THEN 0 ELSE ps[1].fee + SumFees(Tail(ps))

Live(p) == PositionState(p) # "Closed"
HasPosition(n) == \E i \in 1..Len(positions) : positions[i].seq = n
LastStage(c) == c.stages[Len(c.stages)]

\* C1 (as stated): in every reachable state the cumulative fee recorded by
\* TradingStats is at most limit_pct x initial_capital.
C1_FeesWithinLimit ==
    stats_tracker.total_fees_lamports * 100
        <= stats_tracker.initial_capital * stats_tracker.limit_pct

\* C1 (amended): the cumulative fee is the sum of the sell fees recorded for
\* the Positions, recorded whatever the budget; every Position was entered
\* for a candidate whose budget check at dequeue found the fee below the limit.
C1_SoftBudget ==
    /\ stats_tracker.total_fees_lamports = SumFees(positions)
    /\ \A i \in 1..Len(positions) : ~positions[i].admitted_over_budget

C1_Witness ==
    /\ stats_tracker.total_fees_lamports * 100
           > stats_tracker.initial_capital * stats_tracker.limit_pct
    /\ \A i \in 1..Len(positions) : positions[i].fee > 0
    /\ Len(positions) = 2

\* C2: whenever the consumer submits a buy, the budget is not exceeded at that
\* moment.
C2_BudgetHoldsAtBuy ==
    [][Buy => ~is_budget_exceeded(stats_tracker)]_vars

\* C3: once the cumulative fee has reached the limit, is_budget_exceeded()
\* stays true; every candidate dequeued from then on is dropped at the budget
\* check, and a Position created from then on belongs to a candidate that was
\* dequeued before the limit was reached.
C3_FailsClosed ==
    [][is_budget_exceeded(stats_tracker) =>
          /\ is_budget_exceeded(stats_tracker')
          /\ (cand'.seq # cand.seq) =>
                 (cand'.budget_exceeded /\ cpc' = "get" /\ cand'.stages = <<>>)
          /\ (Len(positions') > Len(positions)) =>
                 ~positions'[Len(positions')].admitted_over_budget
      ]_vars

C3_Witness ==
    /\ is_budget_exceeded(stats_tracker)
    /\ cand.budget_exceeded
    /\ cand.mint # None
    /\ \E i \in 1..Len(positions) :
           positions[i].pc = "done" /\ positions[i].fee = MaxFee

\* C4: a candidate dequeued while the budget is exceeded is dropped: no filter
\* stage and no collaborator is invoked for it and it is not bought.
C4_DropOnBudget ==
    cand.budget_exceeded =>
        /\ cand.stages = <<>>
        /\ cpc = "get"
        /\ ~cand.bought
        /\ ~HasPosition(cand.seq)

C4_Witness ==
    /\ cand.budget_exceeded
    /\ cand.mint # None
    /\ cand.seq = 2

\* C5: at most one live (not Closed) Position exists per mint.
C5_OneLivePositionPerMint ==
    \A i, j \in 1..Len(positions) :
        (i # j /\ Live(positions[i]) /\ Live(positions[j]))
            => positions[i].mint # positions[j].mint

\* C6: once a stage has rejected a candidate, that stage is the last one
\* invoked for it, the consumer is done with it, and it is not bought.
C6_ShortCircuit ==
    cand.rejected_by # None =>
        /\ cand.stages # <<>>
        /\ LastStage(cand) = cand.rejected_by
        /\ cpc = "get"
        /\ ~cand.bought
        /\ ~HasPosition(cand.seq)

C6_Witness ==
    /\ cand.rejected_by = "curve"
    /\ cand.stages = <<"blacklist", "api", "db", "curve">>

\* C7: a candidate whose creator is in CONFIG's blacklist when should_snipe
\* evaluates it is rejected by the blacklist stage, no other stage is invoked
\* for it, and it is not bought.
C7_BlacklistWins ==
    cand.blacklisted =>
        /\ cand.stages = <<"blacklist">>
        /\ cand.rejected_by = "blacklist"
        /\ cpc = "get"
        /\ ~cand.bought
        /\ ~HasPosition(cand.seq)

C7_Witness ==
    /\ cand.blacklisted
    /\ cand.rejected_by = "blacklist"
    /\ cand.creator \in CONFIG.creator_blacklist

\* C8: if the relay returned an identifier, the submission returned that
\* identifier and send_transaction was never called for it.
C8_NoDoubleSend ==
    (sub.pc # "unused" /\ sub.bundle_id \notin {"pending", "none"}) =>
        /\ sub.pc = "returned"
        /\ sub.result = sub.bundle_id
        /\ sub.send_calls = 0
        /\ sub.sim_calls = 0

C8_Witness ==
    /\ sub.pc = "returned"
    /\ sub.relay_calls = 1
    /\ sub.bundle_id = "bundle_id"
    /\ sub.allow_mev_fallback

\* C9: on the direct path, when every send attempt fails, exactly 3 send
\* attempts are made before the failure is surfaced.
C9_ThreeAttempts ==
    (sub.pc = "returned" /\ sub.error = "send") => sub.send_calls = 3

C11_SimulateBeforeSubmit ==
    sub.pc # "unused" =>
        /\ (sub.relay_calls > 0 \/ sub.send_calls > 0) => sub.sim_calls > 0
        /\ sub.error = "simulation" => (sub.relay_calls = 0 /\ sub.send_calls = 0)

\* C12: a submission returns a signature or bundle id (on which sniper_main
\* creates the Position) only after its confirmed status was observed by
\* polling get_signature_statuses.
C12_ConfirmedBeforeSuccess ==
    (sub.pc = "returned" /\ sub.result # "None") => sub.status_polls > 0

LadderIdx(p) == IF p.ladder_index = LadderUnset THEN 0 ELSE p.ladder_index

\* C13: the Position starts in Monitoring; its state changes only from
\* Monitoring to Exiting and from Exiting to Closed; once Closed nothing of it
\* changes any more (no sell, no fee recording).
C13_Lifecycle ==
    /\ PositionState(pos) = "Monitoring"
    /\ [][LET a == PositionState(pos)
              b == PositionState(pos')
          IN  /\ \/ a = b
                 \/ a = "Monitoring" /\ b = "Exiting"
                 \/ a = "Exiting" /\ b = "Closed"
              /\ a = "Closed" => pos' = pos
       ]_vars

C13_Witness ==
    /\ pos.pc = "done"
    /\ pos.sold
    /\ pos.fee_calls = 1
    /\ pos.trigger = "stop_loss"

\* C14: when the last poll found profit_pct >= take_profit_percent, the
\* Position left Monitoring at that poll on the take-profit trigger (no other
\* trigger, no creator-balance read first), and it is not Closed without a
\* sell_token call.
C14_TakeProfit ==
    (pos.pc # "unused" /\ pos.entry_price > 0
        /\ ProfitAtLeast(pos.entry_price, pos.current_price, TakeProfitPercent)) =>
        /\ PositionState(pos) # "Monitoring"
        /\ pos.trigger = "take_profit"
        /\ pos.pc \in {"fee", "done"} => pos.sell_calls = 1

C14_Witness ==
    /\ pos.pc = "fee"
    /\ pos.trigger = "take_profit"
    /\ pos.current_price = 150
    /\ pos.entry_price = 100
    /\ pos.complete

\* C15: once profit_pct has exceeded 10 at some poll, a poll that finds the
\* drawdown from the peak >= the trailing percent takes the Position out of
\* Monitoring.
C15_TrailingLatched ==
    (pos.pc # "unused" /\ pos.armed_ever
        /\ DropAtLeast(pos.peak_price, pos.current_price, TrailingStopLossPercent)) =>
        PositionState(pos) # "Monitoring"

\* C16: a Position whose profit_pct never exceeded 10 at any poll does not
\* exit on the trailing stop.
C16_TrailingNeedsArming ==
    (pos.pc # "unused" /\ pos.trigger = "trailing_stop") => pos.armed_ever

C16_Witness ==
    /\ pos.pc = "creator"
    /\ ~pos.armed_ever
    /\ DropAtLeast(pos.peak_price, pos.current_price, TrailingStopLossPercent)
    /\ pos.peak_price > pos.entry_price

\* C17: the ladder index, 0 from creation, never decreases; it increases by
\* one exactly when the next entry of the list fires, which happens only with
\* profit_pct at or above that entry's threshold and leaves the Position in
\* Monitoring; so the entries fire in list order, each at most once.
C17_Ladder ==
    [][pos.pc # "unused" =>
          LET i == LadderIdx(pos)
              j == LadderIdx(pos')
          IN  \/ /\ j = i
                 /\ pos'.ladder_fired = pos.ladder_fired
              \/ /\ j = i + 1
                 /\ j <= Len(pos.ladders)
                 /\ pos'.ladder_fired = Append(pos.ladder_fired, j)
                 /\ ProfitAtLeast(pos.entry_price, pos.current_price,
                                  pos.ladders[j].pct)
                 /\ PositionState(pos) = "Monitoring"
                 /\ PositionState(pos') = "Monitoring"
      ]_vars

\* the first entry has fired before, and a later poll again finds the profit
\* at or above its threshold (and below the second entry's)
C17_Witness ==
    /\ pos.pc = "creator"
    /\ pos.ladder_fired = <<1>>
    /\ pos.ladder_index = 1
    /\ Len(pos.ladders) = 2
    /\ pos.peak_price = 130
    /\ pos.current_price = 130

\* C18: a Position whose exit sell failed is Closed only after the sell was
\* retried, with an alert surfaced.
C18_SellRetried ==
    (pos.pc = "done" /\ ~pos.sold) => (pos.sell_calls >= 2 /\ pos.alerts >= 1)

\* C19: a Position that is Closed after a successful sell has had add_fee
\* called once with that sell's fee.
C19_FeeRecorded ==
    (pos.pc = "done" /\ pos.sold) => pos.fee_calls = 1

\* C20: once an exit trigger has fired, sell_token is called whether or not
\* the budget is exceeded: the Position is past the sell step only with one
\* sell_token call made.
C20_ExitNotBlocked ==
    (pos.pc # "unused" /\ pos.trigger # None) =>
        /\ pos.pc \in {"sell", "fee", "done"}
        /\ pos.pc \in {"fee", "done"} => pos.sell_calls = 1

C20_Witness ==
    /\ pos.exceeded_at_trigger
    /\ is_budget_exceeded(stats_tracker)
    /\ pos.pc = "fee"
    /\ pos.sell_calls = 1
    /\ pos.sold

Invoked(c, stage) == \E i \in 1..Len(c.stages) : c.stages[i] = stage

\* C21: the queue never holds two events with the same mint (an event whose
\* mint is already waiting in the queue is a redelivery and is not enqueued).
C21_NoDuplicateEnqueued ==
    \A i, j \in 1..Len(token_queue) :
        (i < j /\ token_queue[i].mint # None)
            => token_queue[i].mint # token_queue[j].mint

\* C22: the length of the candidate queue never exceeds its bound: with a
\* bound below the number of events of a run, an event arriving at the full
\* queue is dropped and the queue never holds all the events of the run.
C22_QueueBounded ==
    Len(token_queue) < MaxEvents

\* C23: candidates are consumed strictly FIFO and one at a time: the consumer
\* takes a new candidate only at the head of its loop, the candidate it takes
\* arrived before everything left in the queue and after every candidate taken
\* before, and a Position is created only for the candidate in hand.
C23_Fifo ==
    [][/\ (cand'.seq # cand.seq) =>
              /\ cpc = "get"
              /\ cand'.seq = cand.seq + 1
              /\ cand'.arrival > cand.arrival
              /\ \A i \in 1..Len(token_queue') :
                     token_queue'[i].arrival > cand'.arrival
       /\ (Len(positions') > Len(positions)) =>
              /\ cand'.seq = cand.seq
              /\ positions'[Len(positions')].seq = cand.seq
      ]_vars

\* the second event is in hand after the first was evaluated and bought
C23_Witness ==
    /\ delivered = 2
    /\ cand.seq = 2
    /\ cand.arrival = 2
    /\ cpc = "api"
    /\ HasPosition(1)

\* C25: no error raised inside a stage leaves the evaluation: the consumer
\* loop is never ended by one.
C25_NoStageErrorEscapes ==
    /\ cpc # "fatal"
    /\ cand.raised # "curve"

\* C26: a candidate whose API call timed out, raised or answered non-200 is
\* not rejected by the API stage; the database stage is invoked next.
C26_ApiFailsOpen ==
    cand.api_failed =>
        /\ cand.rejected_by # "api"
        /\ Len(cand.stages) >= 3
        /\ cand.stages[2] = "api"
        /\ cand.stages[3] = "db"

C26_Witness ==
    /\ cand.api_failed
    /\ cand.approved_by = "chain"
    /\ cand.bought

\* C27: the holder stage rejects exactly when the non-primary top holders
\* exceed the concentration threshold; a failed read or fewer than two
\* accounts passes the candidate on to the sentiment stage.
C27_HolderFailsOpen ==
    (Invoked(cand, "holder") /\ cpc # "holder") =>
        /\ (cand.rejected_by = "holder") <=> cand.holder_over
        /\ cand.holder_read_failed =>
               (cand.rejected_by # "holder" /\ Invoked(cand, "sentiment"))

C27_Witness ==
    /\ cand.holder_read_failed
    /\ ~cand.holder_over
    /\ cand.rejected_by = None
    /\ cand.bought

\* C28: with no credential for the deep flow filter the stage is skipped: it
\* rejects no candidate.
C28_SkippedWithoutCredential ==
    ~CONFIG.bitquery_api_key => cand.rejected_by # "bitquery"

\* C30: a Position takes the creator-balance exit only after an earlier poll
\* of it read a non-zero creator balance.
C30_EmergencyOnlyAfterNonZero ==
    (pos.pc # "unused" /\ pos.trigger = "emergency") => pos.creator_nonzero_seen

\* C24: a buy submission that returned no signature has been logged, no
\* Position was created for the candidate, and the consumer is back at the
\* head of its loop.
C24_FailedBuyLoggedAndSkipped ==
    (buy.pc = "done" /\ buy.buy_sig = None) =>
        /\ buy.failure_logged
        /\ ~buy.position_created
        /\ buy.consumer = "get"

C31_FeeMonotonic ==
    [][stats_tracker'.total_fees_lamports >= stats_tracker.total_fees_lamports]_vars

\* two sells have recorded their fees, the second one after the budget was
\* already reached
C31_Witness ==
    /\ Len(positions) = 2
    /\ \A i \in 1..2 : positions[i].pc = "done" /\ positions[i].fee > 0
    /\ stats_tracker.total_fees_lamports = MaxFee + 1

C33_FractionReloaded ==
    [][(cand'.seq # cand.seq) =>
          (cand'.budget_exceeded <=>
              stats_tracker.total_fees_lamports * 100
                  >= stats_tracker.initial_capital * CONFIG.fee_limit_percent)
      ]_vars

\* the order of the stages in the code
StageOrder ==
    <<"blacklist", "api", "db", "curve", "density", "holder", "sentiment",
      "bitquery", "signals">>

StageRank(stage) == CHOOSE k \in 1..Len(StageOrder) : StageOrder[k] = stage

C35_NoReuseAfterRelay ==
    (sub.pc # "unused" /\ sub.send_calls > 0) =>
        ~(sub.relay_calls > 0 /\ sub.tip_ix /\ sub.signed)

\* C36: the cumulative fee equals the sum of the fees handed to add_fee by
\* the manage_position tasks, in every interleaving of the tasks.
C36_NoLostUpdate ==
    stats_tracker.total_fees_lamports = SumFees(positions)

\* the second task recorded its fee while the first is still before its
\* fee read
C36_Witness ==
    /\ Len(positions) = 2
    /\ positions[1].pc = "fee"
    /\ positions[2].pc = "done"
    /\ positions[2].fee = 1
    /\ stats_tracker.total_fees_lamports = 1

\* C37: no manage_position task ends otherwise than by reaching Closed.
C37_NoTaskCancelled ==
    \A i \in 1..Len(positions) : positions[i].pc # "cancelled"

\* C38: a candidate the filter chain approved had the curve, holder and
\* sentiment stages invoked for it.
C38_ApprovedAfterLocalStages ==
    cand.approved_by # None =>
        /\ Invoked(cand, "curve")
        /\ Invoked(cand, "holder")
        /\ Invoked(cand, "sentiment")

\* C39: once a poll has returned a completed curve, the Position eventually
\* leaves Monitoring.
C39_LeavesMonitoring ==
    (pos.pc # "unused" /\ pos.complete) ~> (pos.pc \in {"sell", "fee", "done"})

\* C40: a Position is created only after a buy transaction was handed to
\* simulate_and_send.
C40_PositionAfterRealBuy ==
    (buy.pc # "unused" /\ buy.position_created) => buy.sent

====
